---- MODULE Spec2Model ----
(***************************************************************************)
(* Model of the chat server: the Socket.IO authentication middleware, the  *)
(* connection / disconnect handlers that maintain the onlineUsers map, and *)
(* the socket event handlers that relay chat and call-signaling events.    *)
(*                                                                         *)
(* Room names, user ids and socket ids are strings, and a private room     *)
(* name is built by string concatenation exactly as the template literal   *)
(* `private_${a}_${b}` builds it.  Every handler is one action; a handler   *)
(* with an `await` is two actions, one up to the await and one after it.   *)
(* The payload an emit carries is kept in out, the list of packets the     *)
(* last handled event put on the wire, one packet per receiving socket.    *)
(* Server timestamps (new Date()) are left out of the packets.             *)
(*                                                                         *)
(* Beside the socket server the module holds the write-path routes of      *)
(* routes/messages.js (send, upload, edit, delete, reactions) and its     *)
(* read routes with the Message collection, the persisted online status    *)
(* written by the handlers and by the login and logout routes, the order   *)
(* of a client's events on the wire, and the database connection loop.     *)
(* Each has its own specification, which leaves the state of the others    *)
(* unchanged.                                                              *)
(***************************************************************************)
EXTENDS Naturals, Sequences, FiniteSets, TLC

VARIABLES
    pc,           \* per socket: position of its connection / disconnect handler
    connected,    \* sockets whose transport is open (members of the namespace)
    sock,         \* per socket: socket.userId and socket.username
    onlineUsers,  \* the onlineUsers Map: user id string -> {id, username, socketId}
    members,      \* the adapter's rooms: set of <<room, socket id>>
    srv,          \* "up", or "crashed" after a handler threw
    ev,           \* the event handled by the last step
    out,          \* the packets the last step emitted, in emission order
    messages,     \* the Message collection: message id -> document
    req,          \* the write-path request between its save and its emit
    inbox,        \* per socket: the events its client sent, not yet handled
    sent,         \* per socket: how many events its client has sent
    delivered,    \* per receiving socket and sender: the events delivered, in order
    users,        \* the User collection: user id -> isOnline, socketId
    pending,      \* sockets whose User.findByIdAndUpdate is still to land
    retryCount,   \* connectToMongoDB's retryCount
    mongo,        \* the state of the database connection loop
    finds         \* per reaction request: the document its findById returned

\* the state of the socket server
core == <<pc, connected, sock, onlineUsers, members, srv>>

\* the message store and the route that is writing to it
store == <<messages, req>>

\* client events on the wire
wire == <<inbox, sent, delivered>>

\* the persisted users and the status updates on their way
account == <<users, pending>>

\* the database connection loop
boot == <<retryCount, mongo>>

\* the reaction requests between their findById and their save
reads == <<finds>>

\* the state outside the socket server
ext == <<store, wire, account, boot, reads>>

vars == <<pc, connected, sock, onlineUsers, members, srv, ev, out,
          messages, req, inbox, sent, delivered, users, pending,
          retryCount, mongo, finds>>

\* undefined / null / a field the payload does not carry
None == "none"

----------------------------------------------------------------------------
(* Bounds *)

\* most (room, socket) memberships created by join-room / join-private-chat
MaxJoins == 2

----------------------------------------------------------------------------
(* The User collection, read by the authentication middleware *)

UserIds == {"u1", "u2"}

\* an id carried by a well-signed token whose user record does not exist
GhostId == "u9"

Username(u) == IF u = "u1" THEN "alice" ELSE "bob"

\* User.findById
NotFound == [found |-> FALSE, _id |-> None, username |-> None]

\* User.findById: the record, or found = FALSE for null
FindById(id) ==
    IF id \in UserIds
    THEN [found |-> TRUE, _id |-> id, username |-> Username(id)]
    ELSE NotFound

\* the socket ids Socket.IO hands out, in the order it hands them out
SocketIds == {"s1", "s2", "s3"}

SocketOrder == <<"s1", "s2", "s3">>

\* the sockets that connect where chat and signaling events are explored;
\* the third connects only where connections alone are explored
ChatSockets == {"s1", "s2"}

\* credentials a client can present in socket.handshake.auth.token
Tokens ==
    {[kind |-> "missing", userId |-> None],
     [kind |-> "invalid", userId |-> None],
     [kind |-> "expired", userId |-> "u1"]}
    \cup {[kind |-> "ok", userId |-> u] : u \in UserIds \cup {GhostId}}

\* jwt.verify: the decoded payload, or throws = TRUE for a bad signature or
\* an expired token
JwtVerify(tok) ==
    IF tok.kind = "ok" THEN [throws |-> FALSE, userId |-> tok.userId]
    ELSE [throws |-> TRUE, userId |-> None]

----------------------------------------------------------------------------
(* Rooms *)

\* `private_${selfId}_${otherIdStr}`
PrivateRoom(selfId, otherIdStr) == "private_" \o selfId \o "_" \o otherIdStr

\* room names a client sends: a literal name, a name that spells a private
\* room key, a name that spells a socket id, and no room at all
RoomNames == {"lobby", PrivateRoom("u1", "u2"), "s1", None}

\* the sockets in a room
Members(room) == {s \in SocketIds : <<room, s>> \in members}

\* memberships other than a socket's own-id room
Joined == {m \in members : m[1] # m[2]}

\* socket.join(room)
Join(s, room) == members \cup {<<room, s>>}

\* the sockets of a set, as a sequence in socket-id order
RECURSIVE InOrder(_, _)
InOrder(S, i) ==
    IF i > Len(SocketOrder) THEN <<>>
    ELSE (IF SocketOrder[i] \in S THEN <<SocketOrder[i]>> ELSE <<>>)
         \o InOrder(S, i + 1)

\* one emit: a packet for every socket of targets
Emit(targets, name, data) ==
    [i \in 1..Len(InOrder(targets, 1)) |->
        [to |-> InOrder(targets, 1)[i], name |-> name, data |-> data]]

\* io.to(room).emit(name, data)
IoTo(room, name, data) == Emit(Members(room), name, data)

\* socket.to(room).emit(name, data): the room without the sending socket
SocketTo(s, room, name, data) == Emit(Members(room) \ {s}, name, data)

\* io.emit(name, data): every socket of the namespace
IoEmit(name, data) == Emit(connected, name, data)

\* Array.from(map.values())
RosterOf(map) == {map[u] : u \in DOMAIN map}

\* onlineUsers.get(idStr): is there an entry
Has(idStr) == idStr \in DOMAIN onlineUsers

\* the event a step handled: its name, the socket it came from and the room
\* and target it named (for a handshake: the kind of token and the user id
\* the token carries)
NoEvent == [kind |-> "none", from |-> None, room |-> None, target |-> None]

Event(kind, s, room, target) ==
    [kind |-> kind, from |-> s, room |-> room, target |-> target]

\* no write-path request is between its save and its emit
NoReq == [kind |-> "none", user |-> None, id |-> None]

\* the reaction requests the server can be handling at one time
Requests == {"r1", "r2"}

\* the request has not called Message.findById, or has finished
NoFind ==
    [user |-> None, id |-> None, emoji |-> None, reactions |-> {},
     stale |-> FALSE]

----------------------------------------------------------------------------
(* Initial states *)

\* the server has started and nobody is connected
Started ==
    /\ pc = [s \in SocketIds |-> "fresh"]
    /\ connected = {}
    /\ sock = [s \in SocketIds |-> [userId |-> None, username |-> None]]
    /\ onlineUsers = <<>>
    /\ members = {}
    /\ srv = "up"
    /\ ev = NoEvent
    /\ out = <<>>
    /\ messages = <<>>
    /\ req = NoReq
    /\ inbox = [s \in SocketIds |-> <<>>]
    /\ sent = [s \in SocketIds |-> 0]
    /\ delivered = [t \in SocketIds |-> [s \in SocketIds |-> <<>>]]
    /\ users = [u \in UserIds |-> [isOnline |-> FALSE, socketId |-> None]]
    /\ pending = {}
    /\ retryCount = 0
    /\ finds = [r \in Requests |-> NoFind]

\* the process has just started: connectToMongoDB has been called once
InitBoot == Started /\ mongo = "connecting"

\* the database is connected and clients can be served
Init == Started /\ mongo = "connected"

\* socket ids are handed out in order: s is the next unused one
NextFresh(s) ==
    /\ pc[s] = "fresh"
    /\ \A i \in 1..Len(SocketOrder) :
          SocketOrder[i] = s =>
              \A j \in 1..(i - 1) : pc[SocketOrder[j]] # "fresh"

----------------------------------------------------------------------------
(* io.use: the authentication middleware *)

\* the middleware without its `if (!user)` check
AuthenticateNoUserCheck(tok) ==
    IF tok.kind = "missing" THEN NotFound
    ELSE IF JwtVerify(tok).throws THEN NotFound
    ELSE [found |-> TRUE, _id |-> JwtVerify(tok).userId,
          username |-> FindById(JwtVerify(tok).userId).username]

\* the outcome of the middleware for a token: the user to bind, or
\* found = FALSE when next(new Error(...)) rejects the handshake
Authenticate(tok) ==
    IF tok.kind = "missing" THEN NotFound
    ELSE IF JwtVerify(tok).throws THEN NotFound
    ELSE FindById(JwtVerify(tok).userId)

\* A client connects with token tok.  On success the middleware binds the
\* identity, Socket.IO puts the socket in the room named by its id and the
\* connection handler runs up to its await of User.findByIdAndUpdate.
Handshake(s, tok) ==
    /\ srv = "up"
    /\ NextFresh(s)
    /\ IF ~Authenticate(tok).found
       THEN /\ pc' = [pc EXCEPT ![s] = "rejected"]
            /\ UNCHANGED <<connected, sock, members>>
       ELSE /\ pc' = [pc EXCEPT ![s] = "connecting"]
            /\ sock' = [sock EXCEPT ![s] =
                          [userId |-> Authenticate(tok)._id,
                           username |-> Authenticate(tok).username]]
            /\ connected' = connected \cup {s}
            /\ members' = Join(s, s)
    /\ ev' = Event("handshake", s, tok.kind, tok.userId)
    /\ out' = <<>>
    /\ UNCHANGED <<onlineUsers, srv>>

----------------------------------------------------------------------------
(* io.on('connection'): after the await *)

\* a registration that keeps an entry the user already has
RegisterKeepFirst(s) ==
    IF Has(sock[s].userId) THEN onlineUsers
    ELSE [u \in DOMAIN onlineUsers \cup {sock[s].userId} |->
            IF u = sock[s].userId
            THEN [id |-> sock[s].userId, username |-> sock[s].username,
                  socketId |-> s]
            ELSE onlineUsers[u]]

\* onlineUsers.set(socket.userId.toString(), {...})
Register(s) ==
    [u \in DOMAIN onlineUsers \cup {sock[s].userId} |->
        IF u = sock[s].userId
        THEN [id |-> sock[s].userId, username |-> sock[s].username,
              socketId |-> s]
        ELSE onlineUsers[u]]

\* a connection handler that broadcasts the roster before it registers
ConnectionEmitFirst(s) ==
    /\ srv = "up"
    /\ pc[s] = "connecting"
    /\ onlineUsers' = Register(s)
    /\ out' = IoEmit("online-users", RosterOf(onlineUsers))
    /\ pc' = [pc EXCEPT ![s] = IF s \in connected THEN "open" ELSE "lost"]
    /\ ev' = Event("connection", s, None, None)
    /\ UNCHANGED <<connected, sock, members, srv>>

\* The connection handler resumes: registers the socket, broadcasts the
\* roster and installs the event handlers.  A socket whose transport closed
\* during the await has already fired its disconnect event, unheard.
Connection(s) ==
    /\ srv = "up"
    /\ pc[s] = "connecting"
    /\ onlineUsers' = Register(s)
    /\ out' = IoEmit("online-users", RosterOf(Register(s)))
    /\ pc' = [pc EXCEPT ![s] = IF s \in connected THEN "open" ELSE "lost"]
    /\ ev' = Event("connection", s, None, None)
    /\ UNCHANGED <<connected, sock, members, srv>>

----------------------------------------------------------------------------
(* Transport close and socket.on('disconnect') *)

\* The transport of s closes (the client leaves or the heartbeat expires):
\* the socket leaves every room and its disconnect event fires.  The handler,
\* if installed, runs up to its await of User.findByIdAndUpdate.
Close(s) ==
    /\ srv = "up"
    /\ s \in connected
    /\ connected' = connected \ {s}
    /\ members' = {m \in members : m[2] # s}
    /\ pc' = [pc EXCEPT ![s] = IF pc[s] = "open" THEN "disconnecting" ELSE pc[s]]
    /\ ev' = Event("close", s, None, None)
    /\ out' = <<>>
    /\ UNCHANGED <<sock, onlineUsers, srv>>

\* a delete that removes the entry only when it points to the closing socket
UnregisterOwnOnly(s) ==
    IF Has(sock[s].userId) /\ onlineUsers[sock[s].userId].socketId = s
    THEN [u \in DOMAIN onlineUsers \ {sock[s].userId} |-> onlineUsers[u]]
    ELSE onlineUsers

\* onlineUsers.delete(socket.userId.toString())
Unregister(s) ==
    [u \in DOMAIN onlineUsers \ {sock[s].userId} |-> onlineUsers[u]]

\* a disconnect handler that skips the broadcast when there was no entry
DisconnectQuiet(s) ==
    /\ srv = "up"
    /\ pc[s] = "disconnecting"
    /\ onlineUsers' = Unregister(s)
    /\ out' = IF Has(sock[s].userId)
              THEN IoEmit("online-users", RosterOf(Unregister(s)))
              ELSE <<>>
    /\ pc' = [pc EXCEPT ![s] = "closed"]
    /\ ev' = Event("disconnect", s, None, None)
    /\ UNCHANGED <<connected, sock, members, srv>>

\* The disconnect handler resumes: removes the entry of the socket's user
\* and broadcasts the roster.
Disconnect(s) ==
    /\ srv = "up"
    /\ pc[s] = "disconnecting"
    /\ onlineUsers' = Unregister(s)
    /\ out' = IoEmit("online-users", RosterOf(Unregister(s)))
    /\ pc' = [pc EXCEPT ![s] = "closed"]
    /\ ev' = Event("disconnect", s, None, None)
    /\ UNCHANGED <<connected, sock, members, srv>>

----------------------------------------------------------------------------
(* socket.on('join-room') *)

CanJoin(s, room) == <<room, s>> \in members \/ Cardinality(Joined) < MaxJoins

\* a join-room handler that announces with io.to(room), which includes the
\* joiner
JoinRoomAnnounceAll(s, room) ==
    /\ srv = "up"
    /\ pc[s] = "open"
    /\ CanJoin(s, room)
    /\ members' = Join(s, room)
    /\ out' = Emit({t \in SocketIds : <<room, t>> \in Join(s, room)},
                   "user-joined", [username |-> sock[s].username])
    /\ ev' = Event("join-room", s, room, None)
    /\ UNCHANGED <<pc, connected, sock, onlineUsers, srv>>

JoinRoom(s, room) ==
    /\ srv = "up"
    /\ pc[s] = "open"
    /\ CanJoin(s, room)
    /\ members' = Join(s, room)
    /\ out' = Emit({t \in SocketIds : <<room, t>> \in Join(s, room)} \ {s},
                   "user-joined", [username |-> sock[s].username])
    /\ ev' = Event("join-room", s, room, None)
    /\ UNCHANGED <<pc, connected, sock, onlineUsers, srv>>

----------------------------------------------------------------------------
(* socket.on('message') *)

Msgs == {"hi"}

MessageData(s, room, msg) ==
    [message |-> msg, username |-> sock[s].username,
     userId |-> sock[s].userId, room |-> room]

\* io.to(room).emit(...) followed by io.to(socket.id).emit(...)
MessageOut(s, room, msg) ==
    IoTo(room, "new message", MessageData(s, room, msg))
    \o IoTo(s, "new message", MessageData(s, room, msg))

\* a message handler that first puts the sender in the room it writes to
MessageJoins(s, room, msg) ==
    /\ srv = "up"
    /\ pc[s] = "open"
    /\ CanJoin(s, room)
    /\ members' = Join(s, room)
    /\ out' = Emit({t \in SocketIds : <<room, t>> \in Join(s, room)},
                   "new message", MessageData(s, room, msg))
    /\ ev' = Event("message", s, room, None)
    /\ UNCHANGED <<pc, connected, sock, onlineUsers, srv>>

Message(s, room, msg) ==
    /\ srv = "up"
    /\ pc[s] = "open"
    /\ out' = MessageOut(s, room, msg)
    /\ ev' = Event("message", s, room, None)
    /\ UNCHANGED <<pc, connected, sock, onlineUsers, members, srv>>

----------------------------------------------------------------------------
(* socket.on('private-message') *)

\* receiver ids a client sends: a user, an id nobody has, or no id at all
ReceiverIds == UserIds \cup {GhostId, None}

\* x.toString() throws a TypeError when x is undefined
ToStringThrows(x) == x = None

\* an envelope whose sender id is copied from the payload's receiverId
PrivateMessageDataFromPayload(s, receiverIdStr, msg) ==
    [message |-> msg, username |-> sock[s].username,
     userId |-> receiverIdStr,
     room |-> PrivateRoom(sock[s].userId, receiverIdStr),
     isPrivate |-> TRUE, receiverId |-> receiverIdStr]

PrivateMessageData(s, receiverIdStr, msg) ==
    [message |-> msg, username |-> sock[s].username,
     userId |-> sock[s].userId,
     room |-> PrivateRoom(sock[s].userId, receiverIdStr),
     isPrivate |-> TRUE, receiverId |-> receiverIdStr]

\* to the receiver's registered socket if onlineUsers has the receiver, then
\* always to the sender's socket
PrivateMessageOut(s, receiverIdStr, msg) ==
    (IF Has(receiverIdStr)
     THEN IoTo(onlineUsers[receiverIdStr].socketId, "private-message",
               PrivateMessageData(s, receiverIdStr, msg))
     ELSE <<>>)
    \o IoTo(s, "private-message", PrivateMessageData(s, receiverIdStr, msg))

PrivateMessage(s, receiverId, msg) ==
    /\ srv = "up"
    /\ pc[s] = "open"
    /\ IF ToStringThrows(receiverId)
       THEN /\ srv' = "crashed"
            /\ out' = <<>>
       ELSE /\ srv' = srv
            /\ out' = PrivateMessageOut(s, receiverId, msg)
    /\ ev' = Event("private-message", s, None, receiverId)
    /\ UNCHANGED <<pc, connected, sock, onlineUsers, members>>

----------------------------------------------------------------------------
(* socket.on('join-private-chat') *)

JoinPrivateChat(s, otherUserId) ==
    /\ srv = "up"
    /\ pc[s] = "open"
    /\ IF ToStringThrows(otherUserId)
       THEN /\ srv' = "crashed"
            /\ members' = members
       ELSE /\ srv' = srv
            /\ CanJoin(s, PrivateRoom(sock[s].userId, otherUserId))
            /\ members' = Join(s, PrivateRoom(sock[s].userId, otherUserId))
    /\ out' = <<>>
    /\ ev' = Event("join-private-chat", s,
                   IF ToStringThrows(otherUserId) THEN None
                   ELSE PrivateRoom(sock[s].userId, otherUserId),
                   otherUserId)
    /\ UNCHANGED <<pc, connected, sock, onlineUsers>>

----------------------------------------------------------------------------
(* socket.on('typing') *)

IsTypings == {TRUE}

\* a typing handler that emits with io.to(room), which includes the sender
TypingEcho(s, room, isTyping) ==
    /\ srv = "up"
    /\ pc[s] = "open"
    /\ out' = IoTo(room, "user-typing",
                   [username |-> sock[s].username, isTyping |-> isTyping])
    /\ ev' = Event("typing", s, room, None)
    /\ UNCHANGED <<pc, connected, sock, onlineUsers, members, srv>>

Typing(s, room, isTyping) ==
    /\ srv = "up"
    /\ pc[s] = "open"
    /\ out' = SocketTo(s, room, "user-typing",
                       [username |-> sock[s].username, isTyping |-> isTyping])
    /\ ev' = Event("typing", s, room, None)
    /\ UNCHANGED <<pc, connected, sock, onlineUsers, members, srv>>

----------------------------------------------------------------------------
(* WebRTC signaling handlers *)

\* payloads a client sends with a signaling event; body stands for the
\* negotiation fields of the event (type, offer, answer, candidate)
SignalData ==
    [room : {"lobby", "s1"}, targetUserId : {None}, caller : {"mallory"},
     body : {"sdp"}]
    \cup [room : {None}, targetUserId : UserIds \cup {None},
          caller : {"mallory"}, body : {"sdp"}]
    \cup [room : {"lobby"}, targetUserId : {"u1"}, caller : {"mallory"},
          body : {"sdp"}]

\* if (x): undefined is falsy
Truthy(x) == x # None

\* onlineUsers.get(id) followed by if (targetUser) io.to(targetUser.socketId)
ToTarget(targetIdStr, name, data) ==
    IF Has(targetIdStr)
    THEN IoTo(onlineUsers[targetIdStr].socketId, name, data)
    ELSE <<>>

\* the shape shared by call-offer, call-answer, ice-candidate and call-ended:
\* if (data.room) socket.to(room) else if (data.targetUserId) lookup
RoomOrTarget(s, data, name, roomData, targetData) ==
    IF Truthy(data.room) THEN SocketTo(s, data.room, name, roomData)
    ELSE IF Truthy(data.targetUserId)
         THEN ToTarget(data.targetUserId, name, targetData)
         ELSE <<>>

\* a signaling handler that reads targetUser.socketId without testing
\* targetUser first
SignalStepUnchecked(kind, s, data, throws, packets) ==
    /\ srv = "up"
    /\ pc[s] = "open"
    /\ IF throws \/ (~Truthy(data.room) /\ Truthy(data.targetUserId)
                     /\ ~Has(data.targetUserId))
       THEN /\ srv' = "crashed"
            /\ out' = <<>>
       ELSE /\ srv' = srv
            /\ out' = packets
    /\ ev' = Event(kind, s, data.room, data.targetUserId)
    /\ UNCHANGED <<pc, connected, sock, onlineUsers, members>>

\* a signaling handler as a step: it throws, or it emits packets
SignalStep(kind, s, data, throws, packets) ==
    /\ srv = "up"
    /\ pc[s] = "open"
    /\ IF throws
       THEN /\ srv' = "crashed"
            /\ out' = <<>>
       ELSE /\ srv' = srv
            /\ out' = packets
    /\ ev' = Event(kind, s, data.room, data.targetUserId)
    /\ UNCHANGED <<pc, connected, sock, onlineUsers, members>>

CallRequest(s, data) ==
    SignalStep("call-request", s, data, FALSE,
        SocketTo(s, data.room, "call-request",
            [type |-> data.body, room |-> data.room,
             caller |-> sock[s].username]))

PrivateCallRequest(s, data) ==
    SignalStep("private-call-request", s, data,
        ToStringThrows(data.targetUserId),
        ToTarget(data.targetUserId, "private-call-request",
            [type |-> data.body, targetUserId |-> data.targetUserId,
             caller |-> sock[s].username]))

CallOffer(s, data) ==
    SignalStep("call-offer", s, data, FALSE,
        RoomOrTarget(s, data, "call-offer",
            [offer |-> data.body, room |-> data.room,
             caller |-> sock[s].username],
            [offer |-> data.body, targetUserId |-> data.targetUserId,
             caller |-> sock[s].username]))

CallAnswer(s, data) ==
    SignalStep("call-answer", s, data, FALSE,
        RoomOrTarget(s, data, "call-answer",
            [answer |-> data.body, room |-> data.room,
             caller |-> sock[s].username],
            [answer |-> data.body, targetUserId |-> data.targetUserId,
             caller |-> sock[s].username]))

IceCandidate(s, data) ==
    SignalStep("ice-candidate", s, data, FALSE,
        RoomOrTarget(s, data, "ice-candidate",
            [candidate |-> data.body, room |-> data.room,
             caller |-> sock[s].username],
            [candidate |-> data.body, targetUserId |-> data.targetUserId,
             caller |-> sock[s].username]))

CallEnded(s, data) ==
    SignalStep("call-ended", s, data, FALSE,
        RoomOrTarget(s, data, "call-ended",
            [room |-> data.room],
            [targetUserId |-> data.targetUserId]))

CallRejected(s, data) ==
    SignalStep("call-rejected", s, data, FALSE,
        SocketTo(s, data.room, "call-rejected",
            [room |-> data.room, caller |-> data.caller]))

PrivateCallRejected(s, data) ==
    SignalStep("private-call-rejected", s, data,
        ToStringThrows(data.targetUserId),
        ToTarget(data.targetUserId, "private-call-rejected",
            [targetUserId |-> data.targetUserId, caller |-> data.caller]))

PrivateCallAccepted(s, data) ==
    SignalStep("private-call-accepted", s, data,
        ToStringThrows(data.targetUserId),
        ToTarget(data.targetUserId, "private-call-accepted",
            [targetUserId |-> data.targetUserId, caller |-> data.caller,
             type |-> data.body]))

\* 'call-accepted': the connection handler registers no listener for it, so
\* the event is received and nothing runs
CallAccepted(s, data) ==
    SignalStep("call-accepted", s, data, FALSE, <<>>)

----------------------------------------------------------------------------
(* routes/messages.js: the write path.  A route runs as the user the auth  *)
(* middleware put in req.user.  A route that emits after its save is two   *)
(* actions, the save and the emit; req holds the request in between.       *)

MessageIds == {"m1"}

Emojis == {"like"}

\* bodies a client posts to /upload: a room message, a private message to a
\* user, the private flag without a receiver, and neither room nor receiver
UploadBodies ==
    {[room |-> "lobby", receiverId |-> None, isPrivate |-> FALSE,
      content |-> "file"],
     [room |-> "lobby", receiverId |-> None, isPrivate |-> TRUE,
      content |-> "file"],
     [room |-> None, receiverId |-> None, isPrivate |-> FALSE,
      content |-> "file"]}
    \cup {[room |-> None, receiverId |-> r, isPrivate |-> TRUE,
           content |-> "file"] : r \in UserIds}

\* if (isPrivate && receiverId) room = `private_${req.user._id}_${receiverId}`
\* else room = room
UploadRoom(u, body) ==
    IF body.isPrivate /\ Truthy(body.receiverId)
    THEN PrivateRoom(u, body.receiverId)
    ELSE body.room

UploadReceiver(body) ==
    IF body.isPrivate /\ Truthy(body.receiverId) THEN body.receiverId
    ELSE None

\* new Message(messageData)
MessageDoc(u, body) ==
    [sender |-> u, room |-> UploadRoom(u, body),
     receiver |-> UploadReceiver(body), isPrivate |-> body.isPrivate,
     content |-> body.content, isEdited |-> FALSE, isDeleted |-> FALSE,
     reactions |-> {}]

\* the schema's required fields: save rejects a document without a room
Validates(doc) == Truthy(doc.room)

\* the _id of a new document
NewId == CHOOSE m \in MessageIds : m \notin DOMAIN messages

\* the collection with document doc stored under id m
Saved(m, doc) ==
    [x \in DOMAIN messages \cup {m} |-> IF x = m THEN doc ELSE messages[x]]

\* what a route emits for a stored message
Populated(m) ==
    [id |-> m, sender |-> messages[m].sender, room |-> messages[m].room]

\* POST /upload up to the end of `await message.save()`; ok is whether the
\* database accepts the write
UploadSave(u, body, ok) ==
    /\ srv = "up"
    /\ req = NoReq
    /\ MessageIds \ DOMAIN messages # {}
    /\ IF ok /\ Validates(MessageDoc(u, body))
       THEN /\ messages' = Saved(NewId, MessageDoc(u, body))
            /\ req' = [kind |-> "upload", user |-> u, id |-> NewId]
            /\ ev' = Event("upload-save", u, UploadRoom(u, body), NewId)
       ELSE /\ UNCHANGED <<messages, req>>
            /\ ev' = Event("upload-failed", u, UploadRoom(u, body), None)
    /\ out' = <<>>
    /\ UNCHANGED core

\* a private message goes to the receiver's registered socket, then to the
\* sender's; message.receiver.toString() throws without a receiver and the
\* route's catch answers 500
UploadOut(m) ==
    IF messages[m].isPrivate
    THEN IF ToStringThrows(messages[m].receiver) THEN <<>>
         ELSE ToTarget(messages[m].receiver, "new message", Populated(m))
              \o ToTarget(messages[m].sender, "new message", Populated(m))
    ELSE IoTo(messages[m].room, "new message", Populated(m))

\* POST /upload after the save: emit to the room or to the private pair
UploadEmit ==
    /\ srv = "up"
    /\ req.kind = "upload"
    /\ out' = UploadOut(req.id)
    /\ ev' = Event("upload", req.user, messages[req.id].room, req.id)
    /\ req' = NoReq
    /\ UNCHANGED <<messages, core>>

\* a string that is not an ObjectId: Message.findById rejects with a
\* CastError on it, and the route's catch answers 500
BadId == "xyz"

CastThrows(id) == id = BadId

\* the text an edit request carries
Contents == {"new text"}

\* an edit route that does not compare the sender with the requesting user
EditAnyone(u, m, content, ok) ==
    /\ srv = "up"
    /\ IF ~Truthy(content)
       THEN /\ messages' = messages
            /\ ev' = Event("edit-rejected", u, None, m)
       ELSE IF CastThrows(m)
       THEN /\ messages' = messages
            /\ ev' = Event("edit-failed", u, None, m)
       ELSE IF m \notin DOMAIN messages
       THEN /\ messages' = messages
            /\ ev' = Event("edit-not-found", u, None, m)
       ELSE IF ok
       THEN /\ messages' = [messages EXCEPT ![m].content = content,
                                            ![m].isEdited = TRUE]
            /\ ev' = Event("edit", u, messages[m].room, m)
       ELSE /\ messages' = messages
            /\ ev' = Event("edit-failed", u, messages[m].room, m)
    /\ out' = <<>>
    /\ UNCHANGED <<req, core>>

\* PUT /:messageId: 400 without a content, 404 for an id no message has, 403
\* for anyone but the sender; then the content is replaced and the message
\* marked edited; ok is whether the database accepts the write.  The route
\* emits nothing.
Edit(u, m, content, ok) ==
    /\ srv = "up"
    /\ IF ~Truthy(content)
       THEN /\ messages' = messages
            /\ ev' = Event("edit-rejected", u, None, m)
       ELSE IF CastThrows(m)
       THEN /\ messages' = messages
            /\ ev' = Event("edit-failed", u, None, m)
       ELSE IF m \notin DOMAIN messages
       THEN /\ messages' = messages
            /\ ev' = Event("edit-not-found", u, None, m)
       ELSE IF messages[m].sender # u
       THEN /\ messages' = messages
            /\ ev' = Event("edit-forbidden", u, messages[m].room, m)
       ELSE IF ok
       THEN /\ messages' = [messages EXCEPT ![m].content = content,
                                            ![m].isEdited = TRUE]
            /\ ev' = Event("edit", u, messages[m].room, m)
       ELSE /\ messages' = messages
            /\ ev' = Event("edit-failed", u, messages[m].room, m)
    /\ out' = <<>>
    /\ UNCHANGED <<req, core>>

\* DELETE /:messageId: 404 for an id no message has, 403 for anyone but the
\* sender; then the message is marked deleted and stays in the collection
Delete(u, m, ok) ==
    /\ srv = "up"
    /\ IF CastThrows(m)
       THEN /\ messages' = messages
            /\ ev' = Event("delete-failed", u, None, m)
       ELSE IF m \notin DOMAIN messages
       THEN /\ messages' = messages
            /\ ev' = Event("delete-not-found", u, None, m)
       ELSE IF messages[m].sender # u
       THEN /\ messages' = messages
            /\ ev' = Event("delete-forbidden", u, messages[m].room, m)
       ELSE IF ok
       THEN /\ messages' = [messages EXCEPT ![m].isDeleted = TRUE]
            /\ ev' = Event("delete", u, messages[m].room, m)
       ELSE /\ messages' = messages
            /\ ev' = Event("delete-failed", u, messages[m].room, m)
    /\ out' = <<>>
    /\ UNCHANGED <<req, core>>

\* bodies a client posts to /send: a room message, a private message to a
\* user, and a body without a content
SendBodies ==
    {[room |-> "lobby", receiverId |-> None, isPrivate |-> FALSE,
      content |-> "hi"],
     [room |-> "lobby", receiverId |-> None, isPrivate |-> FALSE,
      content |-> None]}
    \cup {[room |-> None, receiverId |-> r, isPrivate |-> p,
           content |-> "hi"] : r \in UserIds, p \in BOOLEAN}

\* the ids the database gives to the documents of /send
SendIds == {"m1", "m2"}

\* POST /send: 400 without a content or without both room and receiver; the
\* room is built as in /upload; the document is saved under the new id m;
\* the route emits nothing
Send(m, u, body, ok) ==
    /\ srv = "up"
    /\ m \notin DOMAIN messages
    /\ IF ~Truthy(body.content)
          \/ (~Truthy(body.room) /\ ~Truthy(body.receiverId))
       THEN /\ messages' = messages
            /\ ev' = Event("send-rejected", u, None, None)
       ELSE IF ok /\ Validates(MessageDoc(u, body))
       THEN /\ messages' = Saved(m, MessageDoc(u, body))
            /\ ev' = Event("send", u, UploadRoom(u, body), m)
       ELSE /\ messages' = messages
            /\ ev' = Event("send-failed", u, UploadRoom(u, body), None)
    /\ out' = <<>>
    /\ UNCHANGED <<req, core>>

\* the user's earlier reaction is removed and the new one pushed
React(m, u, emoji) ==
    {r \in messages[m].reactions : r.user # u}
        \cup {[user |-> u, emoji |-> emoji]}

\* a reactions route that goes on to its emit although the save failed
ReactionSaveEmitAnyway(u, m, emoji, ok) ==
    /\ srv = "up"
    /\ req = NoReq
    /\ m \in DOMAIN messages
    /\ IF ok
       THEN /\ messages' = [messages EXCEPT ![m].reactions = React(m, u, emoji)]
            /\ ev' = Event("reaction-save", u, messages[m].room, m)
       ELSE /\ messages' = messages
            /\ ev' = Event("reaction-failed", u, messages[m].room, m)
    /\ req' = [kind |-> "reaction", user |-> u, id |-> m]
    /\ out' = <<>>
    /\ UNCHANGED core

\* POST /:messageId/reactions up to the end of `await message.save()`, with
\* no other save of the message between its findById and its save
ReactionSave(u, m, emoji, ok) ==
    /\ srv = "up"
    /\ req = NoReq
    /\ m \in DOMAIN messages
    /\ IF ok
       THEN /\ messages' = [messages EXCEPT ![m].reactions = React(m, u, emoji)]
            /\ req' = [kind |-> "reaction", user |-> u, id |-> m]
            /\ ev' = Event("reaction-save", u, messages[m].room, m)
       ELSE /\ UNCHANGED <<messages, req>>
            /\ ev' = Event("reaction-failed", u, messages[m].room, m)
    /\ out' = <<>>
    /\ UNCHANGED core

\* a private message's update goes to the registered sockets of its sender
\* and of its receiver, a room message's update to the room
ReactionOut(m) ==
    IF messages[m].isPrivate
    THEN IF ToStringThrows(messages[m].receiver) THEN <<>>
         ELSE ToTarget(messages[m].sender, "message-updated", Populated(m))
              \o ToTarget(messages[m].receiver, "message-updated",
                          Populated(m))
    ELSE IoTo(messages[m].room, "message-updated", Populated(m))

\* POST /:messageId/reactions after the save
ReactionEmit ==
    /\ srv = "up"
    /\ req.kind = "reaction"
    /\ out' = ReactionOut(req.id)
    /\ ev' = Event("reaction", req.user, messages[req.id].room, req.id)
    /\ req' = NoReq
    /\ UNCHANGED <<messages, core>>

(* The read routes, as the set of messages their filter matches: what the  *)
(* route returns over all its pages (sort, skip and limit cut that set     *)
(* into pages and change no membership).                                   *)

\* GET /room/:room
RoomHistory(room) ==
    {m \in DOMAIN messages :
        messages[m].room = room /\ ~messages[m].isDeleted}

\* a private history that looks only under the requesting user's own key
PrivateHistoryOwnKey(u, otherUserId) ==
    {m \in DOMAIN messages :
        /\ messages[m].room = PrivateRoom(u, otherUserId)
        /\ ~messages[m].isDeleted
        /\ messages[m].isPrivate}

\* GET /private/:otherUserId as user u: both orders of the two ids
PrivateHistory(u, otherUserId) ==
    {m \in DOMAIN messages :
        /\ messages[m].room \in {PrivateRoom(u, otherUserId),
                                 PrivateRoom(otherUserId, u)}
        /\ ~messages[m].isDeleted
        /\ messages[m].isPrivate}

\* the texts searched for: each is the whole of a stored content
Queries == {"hi", "file", "new text"}

\* { $regex: query, $options: 'i' } on the texts above
Matches(query, content) == query = content

\* GET /search/:query, with or without ?room=
Search(query, room) ==
    {m \in DOMAIN messages :
        /\ Matches(query, messages[m].content)
        /\ ~messages[m].isDeleted
        /\ Truthy(room) => messages[m].room = room}

(* The reactions route as the steps its awaits cut it into.  findById      *)
(* hands the request its own copy of the document; the filter and the push *)
(* change that copy; save writes the change back.  Mongoose writes a push  *)
(* onto an array that was not otherwise modified as $push, which adds to   *)
(* the stored array and increments the document's version without testing  *)
(* it; it writes an array that was replaced as $set of the whole array,    *)
(* which tests the version read and fails with VersionError when another   *)
(* save has incremented it.  Assigning the filtered array replaces the     *)
(* array only when the filter removed something.  A set holds the array,   *)
(* so that two equal entries count as one.                                 *)

\* the emojis a reaction request names: two of the schema's seven
ReactionEmojis == {"like", "love"}

\* POST /:messageId/reactions up to the end of `await Message.findById`,
\* as request r of user u
ReactionFind(r, u, m, emoji) ==
    /\ srv = "up"
    /\ finds[r] = NoFind
    /\ IF m \in DOMAIN messages
       THEN /\ finds' = [finds EXCEPT ![r] =
                            [user |-> u, id |-> m, emoji |-> emoji,
                             reactions |-> messages[m].reactions,
                             stale |-> FALSE]]
            /\ ev' = Event("reaction-find", u, messages[m].room, m)
       ELSE /\ finds' = finds
            /\ ev' = Event("reaction-not-found", u, None, m)
    /\ out' = <<>>
    /\ UNCHANGED <<messages, req, core>>

\* the reactions of the request's user in the copy findById returned
Own(f) == {x \in f.reactions : x.user = f.user}

\* what save leaves in the stored array
Stored(f) ==
    IF Own(f) = {}
    THEN messages[f.id].reactions \cup {[user |-> f.user, emoji |-> f.emoji]}
    ELSE (f.reactions \ Own(f)) \cup {[user |-> f.user, emoji |-> f.emoji]}

\* whether save's update matches the stored document
VersionMatches(f) == Own(f) = {} \/ ~f.stale

\* the requests in flight after a save of message m incremented its version
Outdated(r, m) ==
    [x \in Requests |->
        IF x = r THEN NoFind
        ELSE IF finds[x].id = m THEN [finds[x] EXCEPT !.stale = TRUE]
        ELSE finds[x]]

\* request r from the filter to the end of `await message.save()`; ok is
\* whether the database accepts the write
ReactionStore(r, ok) ==
    /\ srv = "up"
    /\ req = NoReq
    /\ finds[r] # NoFind
    /\ IF ok /\ VersionMatches(finds[r])
       THEN /\ messages' =
                  [messages EXCEPT ![finds[r].id].reactions = Stored(finds[r])]
            /\ req' = [kind |-> "reaction", user |-> finds[r].user,
                       id |-> finds[r].id]
            /\ ev' = Event("reaction-save", finds[r].user,
                           messages[finds[r].id].room, finds[r].id)
            /\ finds' = Outdated(r, finds[r].id)
       ELSE /\ UNCHANGED <<messages, req>>
            /\ ev' = Event("reaction-failed", finds[r].user,
                           messages[finds[r].id].room, finds[r].id)
            /\ finds' = [finds EXCEPT ![r] = NoFind]
    /\ out' = <<>>
    /\ UNCHANGED core


----------------------------------------------------------------------------
(* Clients' events on the wire.  A connection carries its packets in       *)
(* order; the server takes them one at a time and runs the listener, which *)
(* for these events has no await: it emits before the next packet is taken.*)

\* most events the clients send, all together
MaxSends == 2

\* the events whose order is followed: a room message, and a private
\* message and a call offer to the first user
WireEvents ==
    {[kind |-> "message", room |-> "lobby", target |-> None]}
    \cup {[kind |-> k, room |-> None, target |-> "u1"] :
             k \in {"private-message", "call-offer"}}

\* the events sent so far
Sends == sent["s1"] + sent["s2"] + sent["s3"]

\* the client of s emits event e, its next in order
ClientEmit(s, e) ==
    /\ srv = "up"
    /\ pc[s] = "open"
    /\ Sends < MaxSends
    /\ sent' = [sent EXCEPT ![s] = @ + 1]
    /\ inbox' = [inbox EXCEPT ![s] = Append(@, [seq |-> sent[s] + 1, e |-> e])]
    /\ ev' = Event("client-emit", s, e.room, e.target)
    /\ out' = <<>>
    /\ UNCHANGED <<core, delivered>>

\* the listener registered for the event runs
Dispatch(s, e) ==
    \/ e.kind = "message" /\ \E msg \in Msgs : Message(s, e.room, msg)
    \/ e.kind = "private-message"
          /\ \E msg \in Msgs : PrivateMessage(s, e.target, msg)
    \/ e.kind = "call-offer"
          /\ CallOffer(s, [room |-> e.room, targetUserId |-> e.target,
                           caller |-> None, body |-> "sdp"])

\* the delivery logs after the event numbered seq from s put out' on the wire
Logged(s, seq) ==
    [t \in SocketIds |->
        IF \E i \in DOMAIN out' : out'[i].to = t
        THEN [delivered[t] EXCEPT ![s] = Append(@, seq)]
        ELSE delivered[t]]

\* a server that takes the newest queued packet of a connection first
ReceiveNewest(s) ==
    /\ inbox[s] # <<>>
    /\ Dispatch(s, inbox[s][Len(inbox[s])].e)
    /\ inbox' = [inbox EXCEPT ![s] = SubSeq(@, 1, Len(@) - 1)]
    /\ delivered' = Logged(s, inbox[s][Len(inbox[s])].seq)
    /\ UNCHANGED sent

\* the server takes the oldest queued packet of s and runs its listener to
\* the end
Receive(s) ==
    /\ inbox[s] # <<>>
    /\ Dispatch(s, Head(inbox[s]).e)
    /\ inbox' = [inbox EXCEPT ![s] = Tail(@)]
    /\ delivered' = Logged(s, Head(inbox[s]).seq)
    /\ UNCHANGED sent

----------------------------------------------------------------------------
(* The persisted online status: User.findByIdAndUpdate in the connection   *)
(* and disconnect handlers, and the login and logout routes.  A handler    *)
(* issues its update and awaits it; the update lands in the database at    *)
(* some later step, and only then can the handler resume.                  *)

\* the document fields the update of socket s sets: isOnline true with the
\* socket id from the connection handler, false and null from the disconnect
\* handler
StatusOf(s) ==
    IF pc[s] = "connecting" THEN [isOnline |-> TRUE, socketId |-> s]
    ELSE [isOnline |-> FALSE, socketId |-> None]

\* the awaited User.findByIdAndUpdate of socket s takes effect
StatusLands(s) ==
    /\ srv = "up"
    /\ s \in pending
    /\ users' = [users EXCEPT ![sock[s].userId] = StatusOf(s)]
    /\ pending' = pending \ {s}
    /\ ev' = Event("status", s, None, None)
    /\ out' = <<>>
    /\ UNCHANGED core

\* POST /login with valid credentials: user.isOnline = true; user.save()
Login(u) ==
    /\ srv = "up"
    /\ users' = [users EXCEPT ![u].isOnline = TRUE]
    /\ ev' = Event("login", u, None, None)
    /\ out' = <<>>
    /\ UNCHANGED <<core, pending>>

\* POST /logout: req.user.isOnline = false; req.user.save()
Logout(u) ==
    /\ srv = "up"
    /\ users' = [users EXCEPT ![u].isOnline = FALSE]
    /\ ev' = Event("logout", u, None, None)
    /\ out' = <<>>
    /\ UNCHANGED <<core, pending>>

----------------------------------------------------------------------------
(* connectToMongoDB: the database connection loop.  mongo is "connecting"  *)
(* while mongoose.connect is pending, "waiting" while the 3 s retry timer  *)
(* runs, "connected" after the promise resolved, "exited" after            *)
(* process.exit(1).                                                        *)

maxRetries == 3

\* .then: the connection is up and the retry count starts over
ConnectSucceeds ==
    /\ srv = "up"
    /\ mongo = "connecting"
    /\ mongo' = "connected"
    /\ retryCount' = 0
    /\ ev' = Event("mongo-connected", None, None, None)
    /\ out' = <<>>
    /\ UNCHANGED core

\* a .catch that retries while retryCount <= maxRetries
ConnectFailsOneMore ==
    /\ srv = "up"
    /\ mongo = "connecting"
    /\ retryCount' = retryCount + 1
    /\ IF retryCount + 1 <= maxRetries
       THEN mongo' = "waiting" /\ srv' = srv
       ELSE mongo' = "exited" /\ srv' = "exited"
    /\ ev' = Event("mongo-failed", None, None, None)
    /\ out' = <<>>
    /\ UNCHANGED <<pc, connected, sock, onlineUsers, members>>

\* .catch: count the failure, then schedule one retry or exit the process
ConnectFails ==
    /\ srv = "up"
    /\ mongo = "connecting"
    /\ retryCount' = retryCount + 1
    /\ IF retryCount + 1 < maxRetries
       THEN mongo' = "waiting" /\ srv' = srv
       ELSE mongo' = "exited" /\ srv' = "exited"
    /\ ev' = Event("mongo-failed", None, None, None)
    /\ out' = <<>>
    /\ UNCHANGED <<pc, connected, sock, onlineUsers, members>>

\* setTimeout(connectToMongoDB, 3000) fires: the next attempt starts
RetryTimer ==
    /\ srv = "up"
    /\ mongo = "waiting"
    /\ mongo' = "connecting"
    /\ ev' = Event("mongo-retry", None, None, None)
    /\ out' = <<>>
    /\ UNCHANGED <<core, retryCount>>

----------------------------------------------------------------------------

Lifecycle ==
    \/ \E s \in ChatSockets, tok \in Tokens :
          Handshake(s, tok) /\ UNCHANGED ext
    \/ \E s \in SocketIds :
          Connection(s) /\ UNCHANGED ext
    \/ \E s \in SocketIds :
          Close(s) /\ UNCHANGED ext
    \/ \E s \in SocketIds :
          Disconnect(s) /\ UNCHANGED ext

Chat ==
    \/ \E s \in SocketIds, room \in RoomNames :
          JoinRoom(s, room) /\ UNCHANGED ext
    \/ \E s \in SocketIds, room \in RoomNames, msg \in Msgs :
          Message(s, room, msg)
          /\ UNCHANGED ext
    \/ \E s \in SocketIds, r \in ReceiverIds, msg \in Msgs :
          PrivateMessage(s, r, msg)
          /\ UNCHANGED ext
    \/ \E s \in SocketIds, o \in ReceiverIds :
          JoinPrivateChat(s, o) /\ UNCHANGED ext
    \/ \E s \in SocketIds, room \in RoomNames, isTyping \in IsTypings :
          Typing(s, room, isTyping)
          /\ UNCHANGED ext

Next == Lifecycle \/ Chat

Signaling ==
    \/ \E s \in SocketIds, data \in SignalData :
          CallRequest(s, data) /\ UNCHANGED ext
    \/ \E s \in SocketIds, data \in SignalData :
          PrivateCallRequest(s, data) /\ UNCHANGED ext
    \/ \E s \in SocketIds, data \in SignalData :
          CallOffer(s, data) /\ UNCHANGED ext
    \/ \E s \in SocketIds, data \in SignalData :
          CallAnswer(s, data) /\ UNCHANGED ext
    \/ \E s \in SocketIds, data \in SignalData :
          IceCandidate(s, data) /\ UNCHANGED ext
    \/ \E s \in SocketIds, data \in SignalData :
          CallEnded(s, data) /\ UNCHANGED ext
    \/ \E s \in SocketIds, data \in SignalData :
          CallRejected(s, data) /\ UNCHANGED ext
    \/ \E s \in SocketIds, data \in SignalData :
          PrivateCallRejected(s, data) /\ UNCHANGED ext
    \/ \E s \in SocketIds, data \in SignalData :
          PrivateCallAccepted(s, data) /\ UNCHANGED ext
    \/ \E s \in SocketIds, data \in SignalData :
          CallAccepted(s, data) /\ UNCHANGED ext

NextSignal ==
    \/ Lifecycle
    \/ \E s \in SocketIds, room \in {"lobby", "s1"} :
          JoinRoom(s, room) /\ UNCHANGED ext
    \/ Signaling

WritePath ==
    \/ \E u \in UserIds, body \in UploadBodies, ok \in BOOLEAN :
          UploadSave(u, body, ok) /\ UNCHANGED <<wire, account, boot, reads>>
    \/ UploadEmit /\ UNCHANGED <<wire, account, boot, reads>>
    \/ \E u \in UserIds, m \in MessageIds, content \in Contents,
          ok \in BOOLEAN :
          Edit(u, m, content, ok) /\ UNCHANGED <<wire, account, boot, reads>>
    \/ \E u \in UserIds, m \in MessageIds, emoji \in Emojis, ok \in BOOLEAN :
          ReactionSave(u, m, emoji, ok) /\ UNCHANGED <<wire, account, boot, reads>>
    \/ ReactionEmit /\ UNCHANGED <<wire, account, boot, reads>>

\* a room message is uploaded and reaction requests, two at a time, run their
\* steps in any order
NextReact ==
    \/ \E u \in UserIds, ok \in BOOLEAN :
          UploadSave(u, [room |-> "lobby", receiverId |-> None,
                         isPrivate |-> FALSE, content |-> "file"], ok)
              /\ UNCHANGED <<wire, account, boot, reads>>
    \/ UploadEmit /\ UNCHANGED <<wire, account, boot, reads>>
    \/ \E r \in Requests, u \in UserIds, m \in MessageIds,
          emoji \in ReactionEmojis :
          ReactionFind(r, u, m, emoji) /\ UNCHANGED <<wire, account, boot>>
    \/ \E r \in Requests, ok \in BOOLEAN :
          ReactionStore(r, ok) /\ UNCHANGED <<wire, account, boot>>
    \/ ReactionEmit /\ UNCHANGED <<wire, account, boot, reads>>

\* messages are sent, edited and deleted by either user, also with an id no
\* message has, an id that is not an ObjectId, or no content
NextStore ==
    \/ \E m \in SendIds, u \in UserIds, body \in SendBodies, ok \in BOOLEAN :
          Send(m, u, body, ok) /\ UNCHANGED <<wire, account, boot, reads>>
    \/ \E u \in UserIds, m \in SendIds \cup {BadId},
          content \in Contents \cup {None}, ok \in BOOLEAN :
          Edit(u, m, content, ok) /\ UNCHANGED <<wire, account, boot, reads>>
    \/ \E u \in UserIds, m \in SendIds \cup {BadId}, ok \in BOOLEAN :
          Delete(u, m, ok) /\ UNCHANGED <<wire, account, boot, reads>>

\* a message is sent to the room or to a user, then edited, reacted to and
\* deleted while sockets come and go; a delete arrives when no reaction is
\* between its save and its emit
NextDeleted ==
    \/ Lifecycle
    \/ \E s \in SocketIds :
          JoinRoom(s, "lobby") /\ UNCHANGED ext
    \/ \E m \in MessageIds, u \in UserIds, body \in SendBodies, ok \in BOOLEAN :
          Send(m, u, body, ok) /\ UNCHANGED <<wire, account, boot, reads>>
    \/ \E u \in UserIds, m \in MessageIds, content \in Contents,
          ok \in BOOLEAN :
          Edit(u, m, content, ok) /\ UNCHANGED <<wire, account, boot, reads>>
    \/ \E u \in UserIds, m \in MessageIds, ok \in BOOLEAN :
          req = NoReq /\ Delete(u, m, ok)
              /\ UNCHANGED <<wire, account, boot, reads>>
    \/ \E u \in UserIds, m \in MessageIds, emoji \in Emojis, ok \in BOOLEAN :
          ReactionSave(u, m, emoji, ok)
              /\ UNCHANGED <<wire, account, boot, reads>>
    \/ ReactionEmit /\ UNCHANGED <<wire, account, boot, reads>>

NextWrite ==
    \/ Lifecycle
    \/ \E s \in SocketIds, room \in {"lobby", "s1"} :
          JoinRoom(s, room) /\ UNCHANGED ext
    \/ WritePath

NextWire ==
    \/ Lifecycle
    \/ \E s \in SocketIds :
          JoinRoom(s, "lobby") /\ UNCHANGED ext
    \/ \E s \in SocketIds, e \in WireEvents :
          ClientEmit(s, e) /\ UNCHANGED <<store, account, boot, reads>>
    \/ \E s \in SocketIds :
          Receive(s) /\ UNCHANGED <<store, account, boot, reads>>

\* one room-addressed and one identity-addressed signaling payload
FrameData ==
    {d \in SignalData :
        \/ d.room = "lobby" /\ d.targetUserId = None
        \/ d.room = None /\ d.targetUserId = "u1"}

\* every socket event and every write-path route: the socket events with a
\* room-addressed and an identity-addressed input, the routes as the first
\* user on a room message
NextFrame ==
    \/ Lifecycle
    \/ \E s \in SocketIds :
          JoinRoom(s, "lobby") /\ UNCHANGED ext
    \/ \E s \in SocketIds, msg \in Msgs :
          Message(s, "lobby", msg) /\ UNCHANGED ext
    \/ \E s \in SocketIds, r \in {"u1", None}, msg \in Msgs :
          PrivateMessage(s, r, msg) /\ UNCHANGED ext
    \/ \E s \in SocketIds :
          JoinPrivateChat(s, "u1") /\ UNCHANGED ext
    \/ \E s \in SocketIds, isTyping \in IsTypings :
          Typing(s, "lobby", isTyping) /\ UNCHANGED ext
    \/ \E s \in SocketIds, data \in FrameData :
          CallRequest(s, data) /\ UNCHANGED ext
    \/ \E s \in SocketIds, data \in FrameData :
          PrivateCallRequest(s, data) /\ UNCHANGED ext
    \/ \E s \in SocketIds, data \in FrameData :
          CallOffer(s, data) /\ UNCHANGED ext
    \/ \E s \in SocketIds, data \in FrameData :
          CallAnswer(s, data) /\ UNCHANGED ext
    \/ \E s \in SocketIds, data \in FrameData :
          IceCandidate(s, data) /\ UNCHANGED ext
    \/ \E s \in SocketIds, data \in FrameData :
          CallEnded(s, data) /\ UNCHANGED ext
    \/ \E s \in SocketIds, data \in FrameData :
          CallRejected(s, data) /\ UNCHANGED ext
    \/ \E s \in SocketIds, data \in FrameData :
          PrivateCallRejected(s, data) /\ UNCHANGED ext
    \/ \E s \in SocketIds, data \in FrameData :
          PrivateCallAccepted(s, data) /\ UNCHANGED ext
    \/ \E s \in SocketIds, data \in FrameData :
          CallAccepted(s, data) /\ UNCHANGED ext
    \/ \E body \in {b \in UploadBodies : b.room = "lobby" /\ ~b.isPrivate},
             ok \in BOOLEAN :
          UploadSave("u1", body, ok) /\ UNCHANGED <<wire, account, boot, reads>>
    \/ UploadEmit /\ UNCHANGED <<wire, account, boot, reads>>
    \/ \E m \in MessageIds, ok \in BOOLEAN :
          Edit("u1", m, "new text", ok) /\ UNCHANGED <<wire, account, boot, reads>>
    \/ \E m \in MessageIds, emoji \in Emojis, ok \in BOOLEAN :
          ReactionSave("u1", m, emoji, ok) /\ UNCHANGED <<wire, account, boot, reads>>
    \/ ReactionEmit /\ UNCHANGED <<wire, account, boot, reads>>

\* connections with their status updates, login and logout
NextAccount ==
    \/ \E s \in ChatSockets, tok \in Tokens :
          /\ Handshake(s, tok)
          /\ pending' = IF Authenticate(tok).found THEN pending \cup {s}
                        ELSE pending
          /\ UNCHANGED <<users, store, wire, boot, reads>>
    \/ \E s \in SocketIds :
          StatusLands(s) /\ UNCHANGED <<store, wire, boot, reads>>
    \/ \E s \in SocketIds :
          s \notin pending /\ Connection(s) /\ UNCHANGED ext
    \/ \E s \in SocketIds :
          /\ Close(s)
          /\ pending' = IF pc[s] = "open" THEN pending \cup {s} ELSE pending
          /\ UNCHANGED <<users, store, wire, boot, reads>>
    \/ \E s \in SocketIds :
          s \notin pending /\ Disconnect(s) /\ UNCHANGED ext
    \/ \E u \in UserIds :
          Login(u) /\ UNCHANGED <<store, wire, boot, reads>>
    \/ \E u \in UserIds :
          Logout(u) /\ UNCHANGED <<store, wire, boot, reads>>

\* the connection loop, and connections once the database is up
NextBoot ==
    \/ ConnectSucceeds /\ UNCHANGED <<store, wire, account, reads>>
    \/ ConnectFails /\ UNCHANGED <<store, wire, account, reads>>
    \/ RetryTimer /\ UNCHANGED <<store, wire, account, reads>>
    \/ mongo = "connected" /\ Lifecycle

\* connections alone, of three sockets
NextPresence ==
    \/ \E s \in SocketIds, tok \in Tokens :
          Handshake(s, tok) /\ UNCHANGED ext
    \/ \E s \in SocketIds :
          Connection(s) /\ UNCHANGED ext
    \/ \E s \in SocketIds :
          Close(s) /\ UNCHANGED ext
    \/ \E s \in SocketIds :
          Disconnect(s) /\ UNCHANGED ext

SpecPresence == Init /\ [][NextPresence]_vars

\* an awaited User.findByIdAndUpdate completes, so a handler that waits on it
\* resumes; clients are free never to connect or close
SpecPresenceFair ==
    /\ SpecPresence
    /\ \A s \in SocketIds :
          /\ WF_vars(Connection(s) /\ UNCHANGED ext)
          /\ WF_vars(Disconnect(s) /\ UNCHANGED ext)

\* connections, rooms and chat events
Spec == Init /\ [][Next]_vars

\* connections, rooms and call-signaling events
SpecSignal == Init /\ [][NextSignal]_vars

\* connections, a room and clients' events in the order they were sent
SpecWire == Init /\ [][NextWire]_vars

\* connections with every socket event and every write-path route, on few
\* inputs
SpecFrame == Init /\ [][NextFrame]_vars

\* connections with the persisted online status, login and logout
SpecAccount == Init /\ [][NextAccount]_vars

\* the database connection loop, then connections
SpecBoot == InitBoot /\ [][NextBoot]_vars

\* mongoose.connect settles within its timeouts and the retry timer fires
SpecBootFair ==
    /\ SpecBoot
    /\ WF_vars((ConnectSucceeds \/ ConnectFails)
                  /\ UNCHANGED <<store, wire, account, reads>>)
    /\ WF_vars(RetryTimer /\ UNCHANGED <<store, wire, account, reads>>)

\* connections, rooms and the write-path routes
SpecWrite == Init /\ [][NextWrite]_vars

\* the routes that write the collection, without the socket server
SpecStore == Init /\ [][NextStore]_vars

\* the routes around a deleted message, with the socket server
SpecDeleted == Init /\ [][NextDeleted]_vars

\* the reactions route under concurrent requests
SpecReact == Init /\ [][NextReact]_vars

----------------------------------------------------------------------------
(* Properties *)

\* the packets of the last step that socket s received
Copies(s) == Cardinality({i \in DOMAIN out : out[i].to = s})

\* the sockets that received a packet of the last step
Receivers == {out[i].to : i \in DOMAIN out}

\* socket s carries an identity bound by the middleware
Bound(s) ==
    /\ sock[s].userId \in UserIds
    /\ sock[s].username = Username(sock[s].userId)

\* C1: the private room key is order-independent: the room of a
\* private-message envelope from A to B, and the room A joins with
\* join-private-chat for B, is the key B computes when addressing A.
C1_PrivateKeyOrderIndependent ==
    /\ \A i \in DOMAIN out :
          out[i].name = "private-message" =>
              out[i].data.room =
                  PrivateRoom(out[i].data.receiverId, out[i].data.userId)
    /\ (ev.kind = "join-private-chat" /\ srv = "up") =>
          ev.room = PrivateRoom(ev.target, sock[ev.from].userId)

\* C2: the sender of a room message receives exactly one copy of it on its
\* own socket, whether or not it is a member of the room.
C2_SenderExactlyOneCopy ==
    ev.kind = "message" => Copies(ev.from) = 1

\* C3: a private message from S to T: if T has a presence entry (and the
\* socket it names is still connected), T's registered socket gets exactly
\* one copy and S's socket exactly one echo (two packets when they are the
\* same socket); otherwise no error is raised, S's socket gets exactly one
\* echo and no other socket gets anything.
C3_PrivateExactlyOnce ==
    ev.kind = "private-message" /\ ev.target # None =>
        /\ srv = "up"
        /\ IF Has(ev.target) /\ onlineUsers[ev.target].socketId \in connected
           THEN IF onlineUsers[ev.target].socketId = ev.from
                THEN Copies(ev.from) = 2
                ELSE /\ Copies(onlineUsers[ev.target].socketId) = 1
                     /\ Copies(ev.from) = 1
           ELSE /\ Copies(ev.from) = 1
                /\ Receivers = {ev.from}

\* C4: registration is last-connect-wins: after a socket registers, lookup
\* of its user resolves to that socket, whatever entry the user had before,
\* and the registry never holds two entries for one user.
C4_LastConnectWins ==
    /\ ev.kind = "connection" =>
          /\ Has(sock[ev.from].userId)
          /\ onlineUsers[sock[ev.from].userId].socketId = ev.from
    /\ \A u \in DOMAIN onlineUsers : onlineUsers[u].id = u
    /\ \A u \in UserIds :
          Cardinality({r \in RosterOf(onlineUsers) : r.id = u}) <= 1

C4_Witness ==
    /\ ev.kind = "connection"
    /\ ev.from = "s2"
    /\ pc["s1"] = "open"
    /\ sock["s1"].userId = sock["s2"].userId
    /\ onlineUsers[sock["s2"].userId].socketId = "s2"

\* C5: once the disconnect handler of a socket of user A has run, A has no
\* presence entry and the roster that handler broadcasts does not list A;
\* no roster lists a user without an entry, and A gets an entry again only
\* by a registration of A.
C5_AfterUnregister ==
    /\ ev.kind = "disconnect" =>
          /\ ~Has(sock[ev.from].userId)
          /\ \A i \in DOMAIN out : \A r \in out[i].data :
                r.id # sock[ev.from].userId
    /\ \A i \in DOMAIN out :
          out[i].name = "online-users" => \A r \in out[i].data : Has(r.id)

C5_AbsentUntilRegistered ==
    [][\A u \in UserIds :
          (~Has(u) /\ (u \in DOMAIN onlineUsers')) =>
              (ev'.kind = "connection" /\ sock'[ev'.from].userId = u)]_vars

C5_UnregisterExcludes == []C5_AfterUnregister /\ C5_AbsentUntilRegistered

C5_Witness ==
    /\ ev.kind = "disconnect"
    /\ ~Has(sock[ev.from].userId)
    /\ Len(out) = 1
    /\ out[1].name = "online-users"
    /\ out[1].data # {}

\* C6: join-room is idempotent: a socket that has joined a room and issues
\* join-room for it again stays one member and causes no further
\* user-joined announcement.
C6_JoinIdempotent ==
    [][(ev'.kind = "join-room" /\ <<ev'.room, ev'.from>> \in Joined) =>
          (members' = members /\ out' = <<>>)]_vars

\* C7: a room message reaches exactly the members of the room and the
\* sender's socket: a socket that is neither receives nothing.
C7_RoomMessageRecipients ==
    ev.kind = "message" =>
        \A t \in SocketIds :
            Copies(t) >= 1 <=> (t \in Members(ev.room) \/ t = ev.from)

\* signaling events that can name a target identity
TargetOnlyKinds ==
    {"private-call-request", "private-call-rejected", "private-call-accepted"}

RoomOrTargetKinds == {"call-offer", "call-answer", "ice-candidate", "call-ended"}

\* the last event was a signaling event addressed to an identity
IdentityAddressed ==
    /\ ev.target \in UserIds
    /\ \/ ev.kind \in TargetOnlyKinds
       \/ ev.kind \in RoomOrTargetKinds /\ ~Truthy(ev.room)

\* C8: a call-offer, or any other signaling event addressed to an identity
\* that has no presence entry (its disconnect handler has run), is delivered
\* to no socket, raises no error and leaves the sender connected.
C8_SignalToAbsentDropped ==
    (IdentityAddressed /\ ~Has(ev.target)) =>
        /\ out = <<>>
        /\ srv = "up"
        /\ pc[ev.from] = "open"
        /\ ev.from \in connected

C8_Witness ==
    /\ ev.kind = "call-offer"
    /\ IdentityAddressed
    /\ ~Has(ev.target)
    /\ \E s \in SocketIds : pc[s] = "closed" /\ sock[s].userId = ev.target
    /\ out = <<>>
    /\ srv = "up"

\* C9: a socket whose handshake was rejected has no identity, is not
\* connected, is in no room and in no presence entry; every socket past the
\* handshake, every socket an event came from, every socket a packet went to
\* and every socket in the registry carries the identity of its token; and
\* a bound identity never changes.
C9_BoundOrNothing ==
    /\ \A s \in SocketIds :
          IF pc[s] \in {"fresh", "rejected"}
          THEN /\ sock[s].userId = None
               /\ s \notin connected
               /\ \A m \in members : m[2] # s
               /\ \A u \in DOMAIN onlineUsers : onlineUsers[u].socketId # s
          ELSE Bound(s)
    /\ ev.kind = "handshake" =>
          /\ pc[ev.from] = "rejected" <=>
                ~(ev.room = "ok" /\ ev.target \in UserIds)
          /\ pc[ev.from] # "rejected" => sock[ev.from].userId = ev.target
    /\ ev.kind \notin {"none", "handshake"} => Bound(ev.from)
    /\ \A i \in DOMAIN out : Bound(out[i].to)
    /\ \A u \in DOMAIN onlineUsers :
          /\ Bound(onlineUsers[u].socketId)
          /\ sock[onlineUsers[u].socketId].userId = u

C9_BindingStable ==
    [][\A s \in SocketIds : sock[s].userId # None => sock'[s] = sock[s]]_vars

C9_NoEventWithoutIdentity == []C9_BoundOrNothing /\ C9_BindingStable

C9_Witness ==
    /\ pc["s1"] = "rejected"
    /\ pc["s2"] = "open"
    /\ ev.kind = "message"
    /\ ev.from = "s2"
    /\ Len(out) >= 1

\* C10: a registration broadcasts online-users once to every connected
\* socket, the broadcast lists the registering user with its new socket, and
\* the content of every online-users packet is the registry as it is when
\* the packet is emitted.
C10_RosterBroadcast ==
    /\ ev.kind = "connection" =>
          /\ Receivers = connected
          /\ \A s \in connected : Copies(s) = 1
          /\ \A i \in DOMAIN out :
                /\ out[i].name = "online-users"
                /\ \E r \in out[i].data :
                      /\ r.id = sock[ev.from].userId
                      /\ r.socketId = ev.from
    /\ \A i \in DOMAIN out :
          out[i].name = "online-users" =>
              out[i].data = RosterOf(onlineUsers)

C10_Witness ==
    /\ ev.kind = "connection"
    /\ connected = ChatSockets
    /\ Len(out) = 2
    /\ Cardinality(RosterOf(onlineUsers)) = 2

\* C11: unregister is idempotent: a disconnect handler that runs for a user
\* without a presence entry leaves the registry as it is, the registry after
\* any run is the one a further delete of that user would leave, and every
\* run broadcasts the roster to every connected socket.
C11_RunOnce ==
    [][ev'.kind = "disconnect" =>
          /\ ~Has(sock[ev'.from].userId) => onlineUsers' = onlineUsers
          /\ \A u \in DOMAIN onlineUsers :
                u # sock[ev'.from].userId =>
                    u \in DOMAIN onlineUsers' /\ onlineUsers'[u] = onlineUsers[u]
          /\ {out'[i].to : i \in DOMAIN out'} = connected
          /\ \A i \in DOMAIN out' :
                /\ out'[i].name = "online-users"
                /\ out'[i].data = RosterOf(onlineUsers')]_vars

C11_RunAgain == ev.kind = "disconnect" => Unregister(ev.from) = onlineUsers

C11_UnregisterIdempotent == []C11_RunAgain /\ C11_RunOnce

\* the second disconnect of a user, heard by a third socket
C11_Witness ==
    /\ ev.kind = "disconnect"
    /\ \E s \in SocketIds \ {ev.from} :
          pc[s] = "closed" /\ sock[s].userId = sock[ev.from].userId
    /\ connected # {}
    /\ Len(out) = 1
    /\ out[1].name = "online-users"

\* the transport of s was open and has closed
Closed(s) == pc[s] \notin {"fresh", "rejected"} /\ s \notin connected

\* no presence entry resolves to s
NoEntryFor(s) == \A u \in DOMAIN onlineUsers : onlineUsers[u].socketId # s

\* C12: once a socket has closed, the registry eventually holds no entry
\* that resolves to it, also when it closed while its connection handler
\* was awaiting the status update.
C12_ClosedEventuallyUnregistered ==
    \A s \in SocketIds : [](Closed(s) => <>NoEntryFor(s))

\* C13: a typing event for a room is delivered as user-typing, once, to
\* every current member of the room other than the sending socket, carrying
\* the sender's display name, and never to the sending socket itself,
\* whether or not the sender is a member of the room.
C13_TypingToOthers ==
    ev.kind = "typing" =>
        /\ Receivers = Members(ev.room) \ {ev.from}
        /\ Copies(ev.from) = 0
        /\ \A i \in DOMAIN out :
              /\ Copies(out[i].to) = 1
              /\ out[i].name = "user-typing"
              /\ out[i].data.username = sock[ev.from].username

\* the sender is a member of the room it types in, with one other member
C13_Witness ==
    /\ ev.kind = "typing"
    /\ ev.room = "lobby"
    /\ Members("lobby") = ChatSockets
    /\ Len(out) = 1

\* C14: the user-joined announcement of a join carries the joiner's display
\* name and is delivered, once each, to exactly the sockets that were members
\* of the room before the join other than the joiner; never to the joiner,
\* never to a socket outside the room.
C14_JoinAnnouncedToOthers ==
    [][ev'.kind = "join-room" =>
          /\ {out'[i].to : i \in DOMAIN out'} = Members(ev'.room) \ {ev'.from}
          /\ Len(out') = Cardinality(Members(ev'.room) \ {ev'.from})
          /\ \A i \in DOMAIN out' :
                /\ out'[i].name = "user-joined"
                /\ out'[i].data.username = sock[ev'.from].username]_vars

\* a join of a room that already has another member
C14_Witness ==
    /\ ev.kind = "join-room"
    /\ ev.room = "lobby"
    /\ Members("lobby") = ChatSockets
    /\ Len(out) = 1
    /\ out[1].to # ev.from

\* C15: the sender fields (userId, username) of every envelope of a room
\* message or private message are the identity the middleware bound to the
\* sending socket; they are read from the socket alone, so the room, the
\* receiver id and the text of the payload have no influence on them.
C15_SenderFromConnection ==
    ev.kind \in {"message", "private-message"} =>
        /\ Bound(ev.from)
        /\ \A i \in DOMAIN out :
              /\ out[i].data.userId = sock[ev.from].userId
              /\ out[i].data.username = sock[ev.from].username

\* a private message addressed to the other user, delivered to both
C15_Witness ==
    /\ ev.kind = "private-message"
    /\ ev.target \in UserIds \ {sock[ev.from].userId}
    /\ Len(out) = 2
    /\ out[1].to # out[2].to

\* signaling events that name a room only
RoomOnlyKinds == {"call-request", "call-rejected", "call-accepted"}

\* the signaling events the connection handler listens to
HandledKinds ==
    (RoomOnlyKinds \ {"call-accepted"}) \cup TargetOnlyKinds
        \cup RoomOrTargetKinds

\* the inbound signaling events of the external interface
InboundKinds == HandledKinds \cup {"call-accepted"}

\* C16: every forwarded signaling event carries, as caller, the display name
\* of the socket that sent it, taken from the socket and not from the
\* payload.
C16_AnnotatedWithSender ==
    ev.kind \in HandledKinds =>
        \A i \in DOMAIN out :
            /\ "caller" \in DOMAIN out[i].data
            /\ out[i].data.caller = sock[ev.from].username

\* the connected socket the registry resolves a target identity to
Resolved(target) ==
    IF Has(target) THEN {onlineUsers[target].socketId} \cap connected ELSE {}

\* the recipients the routing rule gives the last event: the room's members
\* other than the sender if it carried a room, otherwise the socket
\* resolved for its target
RuleRecipients ==
    IF Truthy(ev.room) THEN Members(ev.room) \ {ev.from}
    ELSE IF Truthy(ev.target) THEN Resolved(ev.target)
         ELSE {}

\* C17: every signaling event is routed by one rule: with a room, to each
\* member of the room except the sending socket; otherwise, with a target
\* identity, to the one socket the registry resolves for it, or to none when
\* it has no entry.
C17_OneRoutingRule ==
    ev.kind \in HandledKinds =>
        /\ Receivers = RuleRecipients
        /\ \A t \in Receivers : Copies(t) = 1

\* the recipients an inbound event resolves to: by room for the events that
\* name a room, by target for the private events, by the rule for the rest
Resolves ==
    IF ev.kind \in RoomOnlyKinds THEN Members(ev.room) \ {ev.from}
    ELSE IF ev.kind \in TargetOnlyKinds THEN Resolved(ev.target)
         ELSE RuleRecipients

\* C18: each inbound signaling event of the interface, call-accepted
\* included, that resolves to at least one recipient produces an outbound
\* event of the same name to those recipients.
C18_MirroredOneToOne ==
    (ev.kind \in InboundKinds /\ Resolves # {}) =>
        /\ Resolves \subseteq Receivers
        /\ \A i \in DOMAIN out : out[i].name = ev.kind

\* C19: whether and to whom a signaling event is forwarded does not depend
\* on the signaling events handled before it: handling one changes nothing
\* that the forwarding of a later one reads (registry, rooms, identities,
\* connections, and the server still serving).
C19_NoLifecycleState ==
    [][ev'.kind \in InboundKinds =>
          UNCHANGED <<pc, connected, sock, onlineUsers, members, srv>>]_vars

\* an event that lacks its required field: a private message with no
\* receiver id, a room event with no room
Malformed(e) ==
    \/ e.kind = "private-message" /\ ~Truthy(e.target)
    \/ e.kind \in {"message", "typing", "join-room"} /\ ~Truthy(e.room)

\* C20: an inbound event that lacks a required field is ignored: nothing is
\* delivered, presence and rooms stay as they are, the sender stays
\* connected and the server goes on handling events.
C20_MalformedIgnored ==
    [][Malformed(ev') =>
          /\ out' = <<>>
          /\ UNCHANGED <<onlineUsers, members, pc, connected, srv>>]_vars

\* the live recipients of a stored message: the members of its room, or for
\* a private message the registered sockets of its sender and receiver
LiveRecipients(m) ==
    IF messages[m].isPrivate
    THEN Resolved(messages[m].sender) \cup Resolved(messages[m].receiver)
    ELSE Members(messages[m].room)

\* C21: after a successful edit and after a successful reaction a
\* message-updated event is delivered to the live recipients of the message:
\* the step that ends the route carries message-updated packets for each of
\* them.
C21_UpdatePushed ==
    ev.kind \in {"edit", "reaction"} =>
        /\ LiveRecipients(ev.target) \subseteq Receivers
        /\ \A i \in DOMAIN out : out[i].name = "message-updated"

\* the packets of the last step that the write path emitted
WritePackets(o) ==
    {i \in DOMAIN o : o[i].name \in {"new message", "message-updated"}}

\* a failed save delivers nothing and leaves no emit to come
C22_FailedSaveSilent ==
    ev.kind \in {"upload-failed", "reaction-failed"} =>
        out = <<>> /\ req = NoReq

\* a step that delivers for a write follows that write's successful save
C22_EmitFollowsSave ==
    [][WritePackets(out') # {} =>
          /\ req.kind \in {"upload", "reaction"}
          /\ req.id \in DOMAIN messages
          /\ messages' = messages
          /\ \A i \in WritePackets(out') : out'[i].data.id = req.id]_vars

\* C22: the write path emits only after the durable write has succeeded:
\* when the save of an upload or of a reaction fails nothing is delivered,
\* and every delivery for a write comes in a step after its save.
C22_EmitOnlyAfterSave == []C22_FailedSaveSilent /\ C22_EmitFollowsSave

\* a reaction whose save failed while the message's room has a member
C22_Witness ==
    /\ ev.kind = "reaction-failed"
    /\ ~messages[ev.target].isPrivate
    /\ Members(messages[ev.target].room) # {}

\* the sockets meant to receive an uploaded message: the room's members and
\* the sender's registered socket, or for a private message the registered
\* sockets of the receiver and of the sender
Intended(m) ==
    IF messages[m].isPrivate
    THEN Resolved(messages[m].receiver) \cup Resolved(messages[m].sender)
    ELSE Members(messages[m].room) \cup Resolved(messages[m].sender)

\* C23: an uploaded message, once saved, is delivered to each intended live
\* recipient exactly once and is not lost, and no socket gets two copies.
C23_UploadExactlyOnce ==
    ev.kind = "upload" =>
        /\ Receivers = Intended(ev.target)
        /\ \A t \in Receivers : Copies(t) = 1

\* a sequence of event numbers in the order the events were sent
Ascending(q) == \A i, j \in DOMAIN q : i < j => q[i] < q[j]

\* C24: per-sender order is preserved: the events of one connection that
\* are delivered to one socket are delivered there in the order the
\* connection sent them, room messages, private messages and signaling
\* events alike.
C24_PerSenderOrder ==
    \A t \in SocketIds, s \in SocketIds : Ascending(delivered[t][s])

\* two events of one connection, of different kinds, delivered to another
\* socket
C24_Witness ==
    \E t \in SocketIds, s \in SocketIds :
        /\ s # t
        /\ Len(delivered[t][s]) = 2
        /\ ev.kind = "call-offer"
        /\ ev.from = s

\* socket s is in the room that join-private-chat for user o puts it in
InPrivateChat(s, o) == <<PrivateRoom(sock[s].userId, o), s>> \in members

\* C25: after A has issued join-private-chat for B and B has issued
\* join-private-chat for A, both sockets are members of one room, the room
\* of the pair's private key, so a broadcast to it reaches both.
C25_PairSharesRoom ==
    \A s \in connected, t \in connected :
        (/\ sock[s].userId # sock[t].userId
         /\ InPrivateChat(s, sock[t].userId)
         /\ InPrivateChat(t, sock[s].userId)) =>
            \E room \in {PrivateRoom(sock[s].userId, sock[t].userId),
                         PrivateRoom(sock[t].userId, sock[s].userId)} :
                {s, t} \subseteq Members(room)

\* C26: a presence entry is removed only by the disconnect of the socket it
\* points to; the disconnect of an older socket of the same user leaves the
\* entry of the newer one in place.
C26_RemovedOnlyByOwner ==
    [][\A u \in DOMAIN onlineUsers :
          u \notin DOMAIN onlineUsers' =>
              /\ ev'.kind = "disconnect"
              /\ ev'.from = onlineUsers[u].socketId]_vars

\* the socket the registry holds for a user, if any
Registered(u) == IF Has(u) THEN {onlineUsers[u].socketId} ELSE {}

\* C27: a private message from S to T is delivered to no socket other than
\* T's registered socket and S's own, whatever rooms the sockets have
\* joined: no socket of a third identity receives it.
C27_PrivateOnlyToPair ==
    ev.kind = "private-message" =>
        \A t \in Receivers :
            \/ t \in {ev.from} \cup Registered(ev.target)
            \/ sock[t].userId \in {sock[ev.from].userId, ev.target}

\* the events that relay without touching rooms
RelayKinds == InboundKinds \cup {"message", "private-message", "typing"}

\* C28: only the connection and the disconnect handler change the presence
\* registry: join-room, message, private-message, join-private-chat, typing,
\* every signaling event and every write-path route leave its entries as
\* they are; and signaling, message and typing events leave room membership
\* as it is.
C28_Frame ==
    [][/\ ev'.kind \notin {"connection", "disconnect"} =>
             onlineUsers' = onlineUsers
       /\ ev'.kind \in RelayKinds => members' = members]_vars

\* a reaction pushed to a room while users are registered
C28_Witness ==
    /\ ev.kind = "reaction"
    /\ Len(out) >= 1
    /\ DOMAIN onlineUsers # {}
    /\ Joined # {}

\* no handler is between its await and its resumption
Quiet ==
    /\ pending = {}
    /\ \A s \in SocketIds : pc[s] \notin {"connecting", "disconnecting"}

\* C29: whenever no handler is mid-flight, the persisted status of a user
\* agrees with the registry: isOnline is true with a socketId set exactly
\* when the registry has an entry for the user.
C29_StatusAgrees ==
    Quiet =>
        \A u \in UserIds :
            (users[u].isOnline /\ users[u].socketId # None) <=> Has(u)

\* the count of failures stays within maxRetries; at maxRetries the process
\* has exited; a connection that succeeded has reset the count
C30_CountBounded ==
    /\ retryCount <= maxRetries
    /\ retryCount = maxRetries <=> mongo = "exited"
    /\ mongo = "connected" => retryCount = 0

\* a failure below maxRetries schedules one retry; after exit or success no
\* attempt is started again
C30_OneRetry ==
    [][/\ (ev'.kind = "mongo-failed" /\ retryCount' < maxRetries) =>
             mongo' = "waiting"
       /\ mongo = "waiting" => mongo' = "connecting" /\ retryCount' = retryCount
       /\ mongo \in {"connected", "exited"} =>
             mongo' = mongo /\ retryCount' = retryCount]_vars

\* C30: the database connection loop makes at most 3 consecutive failed
\* attempts: the third failure exits the process and schedules nothing, a
\* failure before it schedules exactly one retry, a success resets the count
\* to 0, and the loop always ends connected or exited.
C30_LoopBounded ==
    /\ []C30_CountBounded
    /\ C30_OneRetry
    /\ <>(mongo \in {"connected", "exited"})

\* the third failure in a row: the process has exited
C30_Witness ==
    /\ ev.kind = "mongo-failed"
    /\ retryCount = maxRetries
    /\ mongo = "exited"



\* the reaction request whose save landed in this step
Landed(r) ==
    /\ finds[r] # NoFind
    /\ finds'[r] = NoFind
    /\ ev'.kind = "reaction-save"

\* the reactions user u holds on message m
Held(m, u) == {x \in messages[m].reactions : x.user = u}

\* C31: every reaction request whose save lands leaves its user with exactly
\* one reaction on the message, the emoji the request named, and leaves the
\* reactions of every other user as they were stored, also when requests
\* run concurrently
C31_LastRequestWins ==
    [][\A r \in Requests :
          Landed(r) =>
              /\ {x \in messages'[finds[r].id].reactions :
                     x.user = finds[r].user}
                   = {[user |-> finds[r].user, emoji |-> finds[r].emoji]}
              /\ \A u \in UserIds \ {finds[r].user} :
                    {x \in messages'[finds[r].id].reactions : x.user = u}
                      = Held(finds[r].id, u)]_vars

\* C31: a stored message never holds two reactions of one user
C31_OnePerUser ==
    \A m \in DOMAIN messages, u \in UserIds : Cardinality(Held(m, u)) <= 1


\* the answers of the edit and delete routes to a request that passed the
\* content check
Answers ==
    {"edit", "edit-forbidden", "edit-not-found", "edit-failed",
     "delete", "delete-forbidden", "delete-not-found", "delete-failed"}

\* the step answered an edit or delete request for the id ev'.target
Answered == ev'.kind \in Answers

\* the fields a sender's edit or delete writes
Written(d) == <<d.content, d.isEdited, d.isDeleted>>

C32_OnlySenderWrites ==
    [][\A m \in DOMAIN messages :
          Written(messages'[m]) # Written(messages[m])
              => /\ ev'.kind \in {"edit", "delete"}
                 /\ ev'.target = m
                 /\ ev'.from = messages[m].sender]_vars

Deleted == {m \in DOMAIN messages : messages[m].isDeleted}

\* C33: deletion is soft: no step removes a record from the collection
C33_RecordKept == [][DOMAIN messages \subseteq DOMAIN messages']_vars

\* C33: deletion is permanent: a message marked deleted stays marked
C33_StaysDeleted ==
    [][\A m \in Deleted : messages'[m].isDeleted]_vars

\* C33: a message marked deleted is returned by no room history, no private
\* history and no search
C33_HiddenFromReaders ==
    \A m \in Deleted :
        /\ \A room \in RoomNames : m \notin RoomHistory(room)
        /\ \A u \in UserIds, o \in UserIds : m \notin PrivateHistory(u, o)
        /\ \A q \in Queries, room \in RoomNames : m \notin Search(q, room)

\* C33: once a message is marked deleted no later edit or reaction pushes it
\* to a live endpoint: no step puts a packet that carries a deleted message
\* on the wire
C33_NeverPushed ==
    [][\A i \in WritePackets(out') :
          out'[i].data.id \notin Deleted]_vars


\* the private messages not deleted that are stored under one or the other
\* key of the pair
UnderEitherKey(a, b) ==
    {m \in DOMAIN messages :
        /\ messages[m].isPrivate
        /\ ~messages[m].isDeleted
        /\ messages[m].room \in {PrivateRoom(a, b), PrivateRoom(b, a)}}

\* the private messages not deleted that one of the pair sent to the other
Between(a, b) ==
    {m \in DOMAIN messages :
        /\ messages[m].isPrivate
        /\ ~messages[m].isDeleted
        /\ \/ messages[m].sender = a /\ messages[m].receiver = b
           \/ messages[m].sender = b /\ messages[m].receiver = a}

\* C34: the private history A asks for B and the one B asks for A are the
\* same set: every private message not deleted that is stored under either
\* key of the pair, and with them every one that either of the two sent to
\* the other
C34_HistorySymmetric ==
    \A a \in UserIds, b \in UserIds :
        /\ PrivateHistory(a, b) = PrivateHistory(b, a)
        /\ PrivateHistory(a, b) = UnderEitherKey(a, b)
        /\ Between(a, b) \subseteq PrivateHistory(a, b)

\* C34: the two users have each sent the other a private message, stored
\* under the two different keys, and the history of either returns both
C34_Witness ==
    \E m \in DOMAIN messages, n \in DOMAIN messages :
        /\ messages[m].room = PrivateRoom("u1", "u2")
        /\ messages[n].room = PrivateRoom("u2", "u1")
        /\ messages[m].sender = "u1" /\ messages[n].sender = "u2"
        /\ {m, n} \subseteq PrivateHistory("u1", "u2")
        /\ {m, n} \subseteq PrivateHistory("u2", "u1")

====
